---- MODULE Spec2Model ----
(***************************************************************************)
(* Model of the "Autos en Campana" backend (src/server.js): the vehicle    *)
(* catalog kept in vehicles.json, the payload files kept in uploads/, and  *)
(* the three request handlers GET/POST/DELETE /api/vehiculos; and of the   *)
(* pages that use it: the image selection of the two admin forms, the      *)
(* admin panel and the add/remove requests of src/public/script.js, the    *)
(* filters of the older script src/unnamed/part_000, and the gallery of    *)
(* src/public/detalle.js.                                                  *)
(*                                                                         *)
(* Every handler of server.js is synchronous (readFileSync, writeFileSync, *)
(* unlinkSync, no await and no callback between reading and writing), and  *)
(* Node runs handlers on one thread, so a handler runs from its first line *)
(* to its response without any other handler in between: each handler is   *)
(* one atomic action, and concurrent requests are serialised in some       *)
(* order, which Next chooses freely.                                       *)
(*                                                                         *)
(* Strings are represented by their structure: a string is a record        *)
(*   pre   the leading text: "https://", "data:" or "/uploads/"            *)
(*   mtype, msub   for "data:" strings, the text before and after the "/"  *)
(*                 that precedes ";base64,"                                *)
(*   t, idx, ext   for "/uploads/" strings of the form                     *)
(*                 /uploads/<t>-<idx>.<ext>                                *)
(*   rest  the remaining text (the base64 data, the rest of a URL; for a   *)
(*         "/uploads/" string, <name> of /uploads/../<name>)               *)
(***************************************************************************)
EXTENDS Integers, Sequences, FiniteSets, TLC

\* ---------------------------------------------------------------- bounds
MaxCreates == 3      \* successful creates in one behaviour
MaxClock == 2        \* Date.now() ranges over 1..MaxClock
MaxStoreLen == 3     \* records of a store content handed to getNextId
MaxStoreId == 4      \* ids of such a store content range over 1..MaxStoreId
MaxFiles == 6        \* files of one selection or drop in script.js
MaxPending == 6      \* FileReader and resize callbacks pending at one time
MaxOldFiles == 3     \* files of one selection or drop in the older script
MaxCalls == 2        \* invocations of handleSelectedFiles in one behaviour
MaxGallery == 3      \* images of the vehicle with the largest gallery
MaxOps == 3          \* vehicles added or removed through the admin panel

\* ------------------------------------------------------------- constants
MaxImagenes == 5     \* "Se permite un maximo de 5 imagenes por vehiculo"

\* --------------------------------------------------------------- strings
Str(pre, mtype, msub, t, idx, ext, rest) ==
  [pre |-> pre, mtype |-> mtype, msub |-> msub, t |-> t, idx |-> idx,
   ext |-> ext, rest |-> rest]

\* "https://<rest>"
Url(rest) == Str("https://", "", "", 0, 0, "", rest)

\* "data:<mtype>/<msub>;base64,<rest>"
DataUrl(mtype, msub, rest) == Str("data:", mtype, msub, 0, 0, "", rest)

\* "/uploads/<t>-<idx>.<ext>"
UploadPath(t, idx, ext) == Str("/uploads/", "", "", t, idx, ext, "")

\* "/uploads/../<name>"
OutsidePath(name) == Str("/uploads/", "", "", 0, 0, "", name)

\* String.prototype.startsWith
startsWith(s, p) == s.pre = p

\* Buffer.from(base64Data, 'base64')
Base64Decode(b64) ==
  CASE b64 = "QQ==" -> "A"
    [] b64 = "Qg==" -> "B"
    [] OTHER -> ""

\* ---------------------------------------------------------------- inputs
Absent == "<undefined>"

\* an element of req.body.imagenes: a string, or an object { src: ... }
ImgString(s) == [obj |-> FALSE, s |-> s]
ImgObject(s) == [obj |-> TRUE, s |-> s]

ExtUrl == ImgString(Url("a.jpg"))
Jpeg == ImgString(DataUrl("image", "jpeg", "QQ=="))
BadTag == ImgString(DataUrl("text", "plain", "Qg=="))
ClientRef == ImgString(UploadPath(1, 0, "jpeg"))
ObjJpeg == ImgObject(DataUrl("image", "jpeg", "QQ=="))
ObjUrl == ImgObject(Url("a.jpg"))

\* req.params.id, and a numeric field of req.body as text: the decimal digits
\* of num (when hasNum) followed by letters (when junk). A JSON number n is
\* read through its text, Param(TRUE, n, FALSE); an absent field and the empty
\* string are Param(FALSE, 0, FALSE).
Param(hasNum, num, junk) == [hasNum |-> hasNum, num |-> num, junk |-> junk]

\* the JSON number n
Num(n) == Param(TRUE, n, FALSE)

\* req.body: the fields the handler destructures. isArray tells whether
\* imagenes is an array; destacado is its truthiness.
Body(marca, modelo, isArray, imagenes, anio, precio, km) ==
  [marca |-> marca, modelo |-> modelo, isArray |-> isArray, imagenes |-> imagenes,
   anio |-> anio, precio |-> precio, km |-> km,
   descripcion |-> "usado", destacado |-> FALSE]

\* what the admin form sends with its images: year, price and mileage as numbers
FormBody(marca, modelo, isArray, imagenes) ==
  Body(marca, modelo, isArray, imagenes, Num(2020), Num(100), Num(50))

ImageLists ==
  { <<>>, << Jpeg >>, << ClientRef >>,
    << ExtUrl, Jpeg >>, << Jpeg, BadTag >>, << BadTag, Jpeg >> }

\* one image more than the admin forms let through
ManyImageBodies ==
  { FormBody("Ford", "Ka", TRUE, [i \in 1 .. MaxImagenes + 1 |-> ExtUrl]) }

CreateBodies ==
  { FormBody("Ford", "Ka", TRUE, im) : im \in ImageLists }
  \cup { FormBody(Absent, "Ka", TRUE, << Jpeg >>) }
  \cup { FormBody("Ford", "", TRUE, << Jpeg >>) }
  \cup { FormBody(Absent, Absent, TRUE, <<>>) }
  \cup { FormBody("Ford", "Ka", FALSE, << ExtUrl >>) }

DeleteParams ==
  { Param(TRUE, n, FALSE) : n \in 0 .. MaxCreates }
  \cup { Param(FALSE, 0, TRUE), Param(TRUE, 2, TRUE) }

\* ----------------------------------------------------------------- state
VARIABLES
  vehicles,     \* the array stored in vehicles.json
  uploads,      \* the files of uploads/: a set of [t, idx, ext, bytes]
  now,          \* the latest reading of Date.now()
  req,          \* the request handled last ("none": no request yet)
  resp,         \* its response
  removed,      \* the record that request removed from the store, if any
  created,      \* ids returned by the successful creates, in order
  anyDelete,    \* some delete request has succeeded
  deletedSince, \* ids deleted successfully since the last create request
  fileState,    \* vehicles.json: "ok" (holds the array vehicles), "missing",
                \* or "corrupt" (JSON.parse throws)
  dataWritable, \* writing vehicles.json succeeds (FALSE: writeFileSync throws)
  appFiles      \* the files of __dirname outside uploads/, vehicles.json apart

\* the admin form of src/public/script.js
VARIABLES
  scriptImages,   \* selectedImages.length
  scriptReaders,  \* FileReaders started by handleFiles whose onload is pending
  scriptResizes   \* resizeImage calls whose img.onload is pending

\* the admin form of src/unnamed/part_000
VARIABLES
  oldImages,      \* selectedImages.length
  oldCalls        \* the invocations of handleSelectedFiles: where each one
                  \* stands and the files it has not looked at yet

\* the catalog page of src/public/script.js and its requests
VARIABLES
  scriptVehicles, \* the array vehicles of the page
  netReqs,        \* requests sent by fetch that the server has not handled yet
  netResps,       \* responses on their way to the page
  issued          \* the number of handleAddVehicle and removeVehicle calls so far

\* the catalog page of src/unnamed/part_000
VARIABLES
  oldPage,          \* "loading" until the DOMContentLoaded handler has run, then
                    \* "ready", or "broken" when that handler threw before it
                    \* attached the listeners
  oldVehicles,      \* the array vehicles of the page
  filteredVehicles, \* the array filteredVehicles of the page
  filters           \* the values of filter-marca, filter-anio, filter-precio
                    \* and filter-kilometros

\* the detail page of src/public/detalle.js
VARIABLES
  vehicle,       \* the vehicle shown (NoVehicle: none found, or not loaded yet)
  currentIndex,  \* the index of the image shown
  mainImg,       \* mainImgEl.src (Url(""): not set)
  detalleOp      \* what the page did last: "load", "left", "right", "thumb"

\* the admin panel of src/public/script.js
VARIABLES
  loggedIn,         \* the flag loggedIn
  overlayShown,     \* admin-overlay has display 'flex' ('none' otherwise)
  loginHidden,      \* admin-login has the class hidden
  dashboardHidden,  \* admin-dashboard has the class hidden
  adminUser,        \* the value of the input admin-user
  adminPass,        \* the value of the input admin-pass
  adminOp           \* the function that ran last: "open", "close", "login",
                    \* "logout", or "none"

envVars == << fileState, dataWritable >>

selectVars == << scriptImages, scriptReaders, scriptResizes, oldImages, oldCalls >>

refetchVars == << scriptVehicles, netReqs, netResps, issued >>

filterVars == << oldPage, oldVehicles, filteredVehicles, filters >>

\* the variables of the pages other than those of the image selections
detalleVars == << vehicle, currentIndex, mainImg, detalleOp >>

adminVars == << loggedIn, overlayShown, loginHidden, dashboardHidden, adminUser,
                adminPass, adminOp >>

otherVars == << refetchVars, filterVars, detalleVars, adminVars >>

clientVars == << selectVars, otherVars >>

\* the client variables other than those of one page
notRefetch == << selectVars, filterVars, detalleVars, adminVars >>
notFilter == << selectVars, refetchVars, detalleVars, adminVars >>
notDetalle == << selectVars, refetchVars, filterVars, adminVars >>
notAdmin == << scriptReaders, scriptResizes, oldImages, oldCalls, refetchVars,
               filterVars, detalleVars >>

serverVars == << vehicles, uploads, now, req, resp, removed, created, anyDelete,
                 deletedSince, fileState, dataWritable, appFiles >>

vars == << serverVars, clientVars >>

NoParam == Param(FALSE, 0, FALSE)
NoBody == Body(Absent, Absent, FALSE, <<>>, NoParam, NoParam, NoParam)

\* a stored number, and null
Number(n) == [null |-> FALSE, val |-> n]
Null == [null |-> TRUE, val |-> 0]

\* a record of vehicles.json
Vehicle(id, marca, modelo, anio, precio, km, descripcion, destacado, imagenes) ==
  [id |-> id, marca |-> marca, modelo |-> modelo, anio |-> anio,
   precio |-> precio, km |-> km, descripcion |-> descripcion,
   destacado |-> destacado, imagenes |-> imagenes]

NoVehicle == Vehicle(0, Absent, Absent, Null, Null, Null, "", FALSE, <<>>)

Request(op, body, param) == [op |-> op, body |-> body, param |-> param]
\* a response: the status, the keys of its JSON object (none for an array),
\* the value of its id key (0 without one) and the array it carries
Response(op, status, id, list, keys) ==
  [op |-> op, status |-> status, id |-> id, list |-> list, keys |-> keys]

NoResponse == Response("none", 0, 0, <<>>, {})

\* ---------------------------------------------------------- file system
FileName(f) == << f.t, f.idx, f.ext >>

\* fs.existsSync(path.join(__dirname, imgPath)) for a path under /uploads/
existsSync(fs, p) == \E f \in fs : FileName(f) = << p.t, p.idx, p.ext >>

\* fs.writeFileSync(filePath, bytes): creates the file or replaces its content
writeFileSync(fs, t, idx, ext, bytes) ==
  { f \in fs : FileName(f) # << t, idx, ext >> }
    \cup { [t |-> t, idx |-> idx, ext |-> ext, bytes |-> bytes] }

\* fs.unlinkSync
unlinkSync(fs, p) == { f \in fs : FileName(f) # << p.t, p.idx, p.ext >> }

\* the files server.js itself names in its directory
AppFiles == { "server.js", "public/index.html" }

\* path.join(__dirname, imgPath) normalises the path: "/uploads/../<name>" is
\* the file <name> of __dirname, outside uploads/
isOutside(p) == startsWith(p, "/uploads/") /\ p.rest # ""

\* ------------------------------------------------------------ getNextId
Max2(a, b) == IF a >= b THEN a ELSE b

RECURSIVE reduceMax(_, _)
reduceMax(list, max) ==
  IF list = <<>> THEN max
  ELSE reduceMax(Tail(list), Max2(max, Head(list).id))

getNextIdNoIncrement(list) == reduceMax(list, 0)
getNextIdByLength(list) == Len(list) + 1

getNextId(list) == reduceMax(list, 0) + 1

\* ---------------------------------------------------- saveDataUrlToFile
\* dataUrl.match(/^data:(image\/\w+);base64,(.+)$/)
matchesDataUrl(s) ==
  /\ startsWith(s, "data:")
  /\ s.mtype = "image"
  /\ s.msub # ""
  /\ s.rest # ""

\* Result of saveDataUrlToFile(dataUrl, index) run at time t on the upload
\* directory fs: thrown, or the returned path and the directory afterwards.
saveDataUrlToFile(dataUrl, index, t, fs) ==
  IF ~matchesDataUrl(dataUrl)
  THEN [thrown |-> TRUE, path |-> dataUrl, fs |-> fs]
  ELSE LET ext == dataUrl.msub
       IN [thrown |-> FALSE,
           path |-> UploadPath(t, index, ext),
           fs |-> writeFileSync(fs, t, index, ext, Base64Decode(dataUrl.rest))]

RECURSIVE mapImagesSkipsBad(_, _, _, _, _, _)
mapImagesSkipsBad(imagenes, ts, i, fs, acc, t) ==
  IF i > Len(imagenes)
  THEN [thrown |-> FALSE, paths |-> acc, fs |-> fs, now |-> t]
  ELSE LET img == imagenes[i]
       IN IF ~img.obj /\ ~startsWith(img.s, "data:")
          THEN mapImagesSkipsBad(imagenes, ts, i + 1, fs, Append(acc, img.s), t)
          ELSE LET r == saveDataUrlToFile(img.s, i - 1, ts[i], fs)
               IN IF r.thrown
                  THEN mapImagesSkipsBad(imagenes, ts, i + 1, fs, acc, t)
                  ELSE mapImagesSkipsBad(imagenes, ts, i + 1, r.fs,
                                         Append(acc, r.path), ts[i])

RECURSIVE mapImagesDropsUrls(_, _, _, _, _, _)
mapImagesDropsUrls(imagenes, ts, i, fs, acc, t) ==
  IF i > Len(imagenes)
  THEN [thrown |-> FALSE, paths |-> acc, fs |-> fs, now |-> t]
  ELSE LET img == imagenes[i]
       IN IF ~img.obj /\ ~startsWith(img.s, "data:")
          THEN mapImagesDropsUrls(imagenes, ts, i + 1, fs, acc, t)
          ELSE LET r == saveDataUrlToFile(img.s, i - 1, ts[i], fs)
               IN IF r.thrown
                  THEN [thrown |-> TRUE, paths |-> acc, fs |-> r.fs, now |-> t]
                  ELSE mapImagesDropsUrls(imagenes, ts, i + 1, r.fs,
                                          Append(acc, r.path), ts[i])

\* imagenes.map((img, idx) => ...) from element i on. ts[i] is the reading of
\* Date.now() when element i is handled, t the latest reading made so far.
\* An exception stops the map at that element, with the files of the earlier
\* elements written.
RECURSIVE mapImages(_, _, _, _, _, _)
mapImages(imagenes, ts, i, fs, acc, t) ==
  IF i > Len(imagenes)
  THEN [thrown |-> FALSE, paths |-> acc, fs |-> fs, now |-> t]
  ELSE LET img == imagenes[i]
       IN IF ~img.obj /\ ~startsWith(img.s, "data:")
          THEN mapImages(imagenes, ts, i + 1, fs, Append(acc, img.s), t)
          ELSE LET r == saveDataUrlToFile(img.s, i - 1, ts[i], fs)
               IN IF r.thrown
                  THEN [thrown |-> TRUE, paths |-> acc, fs |-> r.fs, now |-> t]
                  ELSE mapImages(imagenes, ts, i + 1, r.fs, Append(acc, r.path), ts[i])

\* The readings of Date.now() that one request can make for its images: the
\* clock never goes back, neither within a request nor between requests, and
\* an element that reads no clock has no reading of its own.
Clocks(imagenes) ==
  { ts \in [1 .. Len(imagenes) -> now .. MaxClock] :
      \A i \in 1 .. Len(imagenes) :
        /\ \A j \in i .. Len(imagenes) : ts[i] <= ts[j]
        /\ (~imagenes[i].obj /\ ~startsWith(imagenes[i].s, "data:")) =>
             ts[i] = IF i = 1 THEN now ELSE ts[i - 1]
        /\ ~(~imagenes[i].obj /\ ~startsWith(imagenes[i].s, "data:"))
             /\ ~matchesDataUrl(imagenes[i].s) =>
             ts[i] = IF i = 1 THEN now ELSE ts[i - 1] }

\* ------------------------------------------------------- the data file
\* readVehicles() on a data file in state st holding list: thrown, or the
\* array returned and the state of the file afterwards. A missing file is
\* created with content '[]' (that write is outside any try of readVehicles);
\* any other failure is logged and answered with [].
readVehicles(st, list, writable) ==
  CASE st = "ok" -> [thrown |-> FALSE, list |-> list, st |-> "ok"]
    [] st = "missing" ->
         IF writable THEN [thrown |-> FALSE, list |-> <<>>, st |-> "ok"]
         ELSE [thrown |-> TRUE, list |-> <<>>, st |-> "missing"]
    [] OTHER -> [thrown |-> FALSE, list |-> <<>>, st |-> st]

\* vehicles.push(nuevo)
unshift(list, v) == << v >> \o list

push(list, v) == Append(list, v)

\* res.status(201).json({ success: true, id })
createdWithWrongId(id) == Response("create", 201, id + 1, <<>>, { "success", "id" })

createdResponse(id) == Response("create", 201, id, <<>>, { "success", "id" })

\* the filter inputs: marca '' or a make, anio <<>> for '' or << a >> for the
\* option String(a), precio and km as typed
Filters(marca, anio, precio, km) ==
  [marca |-> marca, anio |-> anio, precio |-> precio, km |-> km]

NoFilters == Filters("", << >>, NoParam, NoParam)

\* the value of a text input: text, with blanks around it when padded
Typed(text, padded) == [text |-> text, padded |-> padded]

\* String.prototype.trim
trim(v) == v.text

\* ------------------------------------------------------------- handlers
ClientInit ==
  /\ scriptImages = 0
  /\ scriptReaders = 0
  /\ scriptResizes = 0
  /\ oldImages = 0
  /\ oldCalls = << >>
  /\ scriptVehicles = << >>
  /\ netReqs = {}
  /\ netResps = {}
  /\ issued = 0
  /\ oldPage = "loading"
  /\ oldVehicles = << >>
  /\ filteredVehicles = << >>
  /\ filters = NoFilters
  /\ vehicle = NoVehicle
  /\ currentIndex = 0
  /\ mainImg = Url("")
  /\ detalleOp = "load"
  /\ loggedIn = FALSE
  /\ overlayShown = FALSE
  /\ loginHidden = FALSE
  /\ dashboardHidden = TRUE
  /\ adminUser = Typed("", FALSE)
  /\ adminPass = Typed("", FALSE)
  /\ adminOp = "none"

\* The empty store: vehicles.json holds [] or does not exist yet (readVehicles
\* creates it), it can be written, uploads/ exists and is empty.
Init ==
  /\ vehicles = <<>>
  /\ uploads = {}
  /\ now = 1
  /\ req = Request("none", NoBody, NoParam)
  /\ resp = NoResponse
  /\ removed = NoVehicle
  /\ created = <<>>
  /\ anyDelete = FALSE
  /\ deletedSince = {}
  /\ fileState \in { "ok", "missing" }
  /\ dataWritable = TRUE
  /\ appFiles = AppFiles
  /\ ClientInit

\* app.get('/api/vehiculos'): no try around readVehicles, so an exception
\* reaches Express, which answers 500
GetVehiculos ==
  LET r == readVehicles(fileState, vehicles, dataWritable)
  IN /\ req' = Request("list", NoBody, NoParam)
     /\ resp' = IF r.thrown THEN Response("list", 500, 0, <<>>, {})
                ELSE Response("list", 200, 0, r.list, {})
     /\ fileState' = r.st
     /\ removed' = NoVehicle
     /\ UNCHANGED << vehicles, uploads, now, created, anyDelete, deletedSince,
                     dataWritable, appFiles, clientVars >>

\* !marca, !modelo
Falsy(field) == field = Absent \/ field = ""

PostValidatesOnlyMarca(body) == ~Falsy(body.marca)

PostValid(body) == ~(Falsy(body.marca) \/ Falsy(body.modelo))

\* parseInt(text, 10): the leading digits, NaN ([nan |-> TRUE]) without any
parseInt(p) == IF p.hasNum THEN [nan |-> FALSE, val |-> p.num]
               ELSE [nan |-> TRUE, val |-> 0]

\* parseFloat(text): on digits followed by letters, the leading digits as well
parseFloat(p) == IF p.hasNum THEN [nan |-> FALSE, val |-> p.num]
                 ELSE [nan |-> TRUE, val |-> 0]

\* n || null: NaN and 0 are falsy
orNull(n) == IF n.nan \/ n.val = 0 THEN Null ELSE Number(n.val)

\* descripcion || ''
orEmpty(text) == IF Falsy(text) THEN "" ELSE text

\* app.post('/api/vehiculos') for a request body of the set bodies
Post(bodies) ==
  \E body \in bodies :
    /\ Len(created) < MaxCreates
    /\ req' = Request("create", body, NoParam)
    /\ deletedSince' = {}
    /\ removed' = NoVehicle
    /\ UNCHANGED << anyDelete, dataWritable, appFiles, clientVars >>
    /\ IF ~PostValid(body)
       THEN /\ resp' = Response("create", 400, 0, <<>>, { "error" })
            /\ UNCHANGED << vehicles, uploads, now, created, fileState >>
       ELSE LET r == readVehicles(fileState, vehicles, dataWritable)
                list == r.list
                id == getNextId(list)
                imagenes == IF body.isArray THEN body.imagenes ELSE <<>>
            IN IF r.thrown
               THEN /\ resp' = Response("create", 500, 0, <<>>, { "error" })
                    /\ UNCHANGED << vehicles, uploads, now, created, fileState >>
               ELSE \E ts \in Clocks(imagenes) :
                 LET m == mapImages(imagenes, ts, 1, uploads, <<>>, now)
                     nuevo == Vehicle(id, body.marca, body.modelo,
                                      orNull(parseInt(body.anio)),
                                      orNull(parseFloat(body.precio)),
                                      orNull(parseInt(body.km)),
                                      orEmpty(body.descripcion),
                                      body.destacado, m.paths)
                 IN /\ uploads' = m.fs
                    /\ now' = m.now
                    /\ IF m.thrown \/ ~dataWritable
                       THEN /\ resp' = Response("create", 500, 0, <<>>, { "error" })
                            /\ fileState' = r.st
                            /\ UNCHANGED << vehicles, created >>
                       ELSE /\ vehicles' = push(list, nuevo)
                            /\ fileState' = "ok"
                            /\ created' = Append(created, id)
                            /\ resp' = createdResponse(id)

PostVehiculos == Post(CreateBodies)

\* vehicles.find((v) => v.id === id): the index of the first match, or 0
findOrFirst(list, id) == IF list = <<>> THEN 0 ELSE 1

find(list, id) ==
  IF \E i \in 1 .. Len(list) : list[i].id = id
  THEN CHOOSE i \in 1 .. Len(list) :
         list[i].id = id /\ \A j \in 1 .. i - 1 : list[j].id # id
  ELSE 0

unlinkNothing(imagenes, i, fs) == fs

\* vehiculo.imagenes.forEach(... unlinkSync ...) from element i on
RECURSIVE unlinkImages(_, _, _)
unlinkImages(imagenes, i, fs) ==
  IF i > Len(imagenes) THEN fs
  ELSE LET imgPath == imagenes[i]
       IN IF startsWith(imgPath, "/uploads/") /\ existsSync(fs, imgPath)
          THEN unlinkImages(imagenes, i + 1, unlinkSync(fs, imgPath))
          ELSE unlinkImages(imagenes, i + 1, fs)

\* the same forEach, for the files outside uploads/ that its paths resolve to
RECURSIVE unlinkOutside(_, _, _)
unlinkOutside(imagenes, i, app) ==
  IF i > Len(imagenes) THEN app
  ELSE LET imgPath == imagenes[i]
       IN IF isOutside(imgPath) /\ imgPath.rest \in app
          THEN unlinkOutside(imagenes, i + 1, app \ { imgPath.rest })
          ELSE unlinkOutside(imagenes, i + 1, app)

filterKeepsAll(list, id) == list

\* vehicles.filter((v) => v.id !== id)
filterOut(list, id) == SelectSeq(list, LAMBDA v : v.id # id)

\* app.delete('/api/vehiculos/:id')
DeleteVehiculos ==
  \E param \in DeleteParams :
    LET id == parseInt(param)
        r == readVehicles(fileState, vehicles, dataWritable)
    IN /\ req' = Request("delete", NoBody, param)
       /\ UNCHANGED << now, created, dataWritable, clientVars >>
       /\ IF id.nan \/ id.val = 0
          THEN /\ resp' = Response("delete", 400, 0, <<>>, { "error" })
               /\ removed' = NoVehicle
               /\ UNCHANGED << vehicles, uploads, appFiles, anyDelete, deletedSince,
                               fileState >>
          ELSE IF r.thrown
          THEN /\ resp' = Response("delete", 500, 0, <<>>, { "error" })
               /\ removed' = NoVehicle
               /\ UNCHANGED << vehicles, uploads, appFiles, anyDelete, deletedSince,
                               fileState >>
          ELSE LET k == find(r.list, id.val)
               IN IF k = 0
                  THEN /\ resp' = Response("delete", 404, 0, <<>>, { "error" })
                       /\ removed' = NoVehicle
                       /\ fileState' = r.st
                       /\ UNCHANGED << vehicles, uploads, appFiles, anyDelete,
                                       deletedSince >>
                  ELSE /\ uploads' = unlinkImages(r.list[k].imagenes, 1, uploads)
                       /\ appFiles' = unlinkOutside(r.list[k].imagenes, 1, appFiles)
                       /\ IF dataWritable
                          THEN /\ vehicles' = filterOut(r.list, id.val)
                               /\ fileState' = "ok"
                               /\ removed' = r.list[k]
                               /\ anyDelete' = TRUE
                               /\ deletedSince' = deletedSince \cup { id.val }
                               /\ resp' = Response("delete", 200, 0, <<>>, { "success" })
                          ELSE /\ resp' = Response("delete", 500, 0, <<>>, { "error" })
                               /\ removed' = NoVehicle
                               /\ UNCHANGED << vehicles, anyDelete, deletedSince,
                                               fileState >>

Next == GetVehiculos \/ PostVehiculos \/ DeleteVehiculos

Spec == Init /\ [][Next]_vars

\* ------------------------------------------- the server's environment
\* What happens to vehicles.json from outside the server, and clients that
\* bypass the admin form. A step of the environment handles no request.
NoRequest ==
  /\ req' = Request("none", NoBody, NoParam)
  /\ resp' = NoResponse
  /\ removed' = NoVehicle

\* vehicles.json is deleted
DataFileLost ==
  /\ fileState # "missing"
  /\ fileState' = "missing"
  /\ vehicles' = <<>>
  /\ NoRequest
  /\ UNCHANGED << uploads, now, created, anyDelete, deletedSince, dataWritable,
                  appFiles, clientVars >>

\* vehicles.json is overwritten with text that is not JSON
DataFileCorrupted ==
  /\ fileState = "ok"
  /\ fileState' = "corrupt"
  /\ vehicles' = <<>>
  /\ NoRequest
  /\ UNCHANGED << uploads, now, created, anyDelete, deletedSince, dataWritable,
                  appFiles, clientVars >>

\* writing vehicles.json starts or stops failing (permissions, full disk)
WritableChanges ==
  /\ dataWritable' = ~dataWritable
  /\ NoRequest
  /\ UNCHANGED << vehicles, uploads, now, created, anyDelete, deletedSince,
                  fileState, appFiles, clientVars >>

\* a create request of any client
PostAny == Post(CreateBodies \cup ManyImageBodies)

NextEnv ==
  \/ GetVehiculos
  \/ PostAny
  \/ DeleteVehiculos
  \/ DataFileLost
  \/ DataFileCorrupted
  \/ WritableChanges

SpecEnv == Init /\ [][NextEnv]_vars

\* ------------------------------------ create requests of any client
\* texts of a numeric field: absent or "", "0", "7", "7abc", "abc"
NumTexts ==
  { NoParam, Num(0), Num(7), Param(TRUE, 7, TRUE), Param(FALSE, 0, TRUE) }

\* bodies with make and model whose year, price and mileage are any text
FieldBodies ==
  { Body("Ford", "Ka", TRUE, <<>>, x, x, x) : x \in NumTexts }
  \cup { Body("Ford", "Ka", TRUE, << ExtUrl >>, Num(2020), NoParam, Num(0)),
         Body("Fiat", "Uno", FALSE, <<>>, Param(FALSE, 0, TRUE), Num(7), Num(7)) }

PostFields == Post(FieldBodies)

\* bodies whose images are objects { src }, next to the same images as strings
ObjectBodies ==
  { FormBody("Ford", "Ka", TRUE, im) :
      im \in { << ExtUrl >>, << Jpeg >>, << ObjUrl >>, << ObjJpeg >>,
               << ObjJpeg, ObjUrl >> } }

PostObjects == Post(ObjectBodies)

NextObjects == GetVehiculos \/ PostObjects \/ DeleteVehiculos

SpecObjects == Init /\ [][NextObjects]_vars

\* bodies whose image strings are paths chosen by the client
PathBodies ==
  { FormBody("Ford", "Ka", TRUE, im) :
      im \in { << Jpeg >>, << ClientRef >>,
               << ImgString(OutsidePath("server.js")) >>,
               << Jpeg, ImgString(OutsidePath("public/index.html")) >> } }

PostPaths == Post(PathBodies)

NextPaths == GetVehiculos \/ PostPaths \/ DeleteVehiculos

SpecPaths == Init /\ [][NextPaths]_vars

NextFields == GetVehiculos \/ PostFields \/ DeleteVehiculos

SpecFields == Init /\ [][NextFields]_vars

\* ------------------------------------------- getNextId on any content
RECURSIVE SeqsUpTo(_, _)
SeqsUpTo(S, n) ==
  IF n = 0 THEN { <<>> }
  ELSE LET shorter == SeqsUpTo(S, n - 1)
       IN shorter \cup { Append(q, x) : q \in { r \in shorter : Len(r) = n - 1 },
                                         x \in S }

\* store contents in any order, with or without repeated ids
StoreContents ==
  SeqsUpTo({ Vehicle(n, "Ford", "Ka", Number(2020), Number(100), Number(50),
                      "usado", FALSE, <<>>) : n \in 1 .. MaxStoreId }, MaxStoreLen)

InitNextId ==
  /\ vehicles \in StoreContents
  /\ uploads = {}
  /\ now = 1
  /\ req = Request("none", NoBody, NoParam)
  /\ resp = NoResponse
  /\ removed = NoVehicle
  /\ created = <<>>
  /\ anyDelete = FALSE
  /\ deletedSince = {}
  /\ fileState = "ok"
  /\ dataWritable = TRUE
  /\ appFiles = AppFiles
  /\ ClientInit

\* const id = getNextId(vehicles)
CallGetNextId ==
  /\ req.op = "none"
  /\ req' = Request("getNextId", NoBody, NoParam)
  /\ resp' = Response("getNextId", 0, getNextId(vehicles), <<>>, {})
  /\ UNCHANGED << vehicles, uploads, now, removed, created, anyDelete, deletedSince,
                  envVars, appFiles, clientVars >>

NextNextId == CallGetNextId

SpecNextId == InitNextId /\ [][NextNextId]_vars

\* ------------------------------- image selection of src/public/script.js
\* a FileList: for each file, whether file.type starts with 'image/'
FileLists(n) == UNION { [1 .. k -> BOOLEAN] : k \in 1 .. n }

\* The FileReaders that handleFiles(files) starts when selectedImages has len
\* entries: the forEach runs to its end before any callback, so len is the
\* same for every file.
RECURSIVE readersStarted(_, _)
readersStarted(files, len) ==
  IF files = <<>> THEN 0
  ELSE IF ~Head(files) THEN readersStarted(Tail(files), len)
  ELSE IF len >= MaxImagenes THEN readersStarted(Tail(files), len)
  ELSE 1 + readersStarted(Tail(files), len)

\* handleFiles(files), called by handleFileInput and handleDrop
HandleFiles ==
  \E files \in FileLists(MaxFiles) :
    LET started == readersStarted(files, scriptImages)
    IN /\ scriptReaders + scriptResizes + started <= MaxPending
       /\ scriptReaders' = scriptReaders + started
       /\ UNCHANGED << scriptImages, scriptResizes, oldImages, oldCalls, otherVars,
                  serverVars >>

\* reader.onload: resizeImage(dataUrl, 500, callback, 0.6) sets img.src
ReaderOnload ==
  /\ scriptReaders > 0
  /\ scriptReaders' = scriptReaders - 1
  /\ scriptResizes' = scriptResizes + 1
  /\ UNCHANGED << scriptImages, oldImages, oldCalls, otherVars,
                  serverVars >>

\* img.onload of resizeImage, then the callback: selectedImages.push(...)
ResizeOnload ==
  /\ scriptResizes > 0
  /\ scriptResizes' = scriptResizes - 1
  /\ scriptImages' = scriptImages + 1
  /\ UNCHANGED << scriptReaders, oldImages, oldCalls, otherVars,
                  serverVars >>

\* the file cannot be read or decoded: no onerror is set, nothing is pushed
LoadFails ==
  /\ \/ scriptReaders > 0 /\ scriptReaders' = scriptReaders - 1
        /\ UNCHANGED scriptResizes
     \/ scriptResizes > 0 /\ scriptResizes' = scriptResizes - 1
        /\ UNCHANGED scriptReaders
  /\ UNCHANGED << scriptImages, oldImages, oldCalls, otherVars,
                  serverVars >>

\* the remove button of a preview: selectedImages.splice(index, 1)
RemoveImage ==
  /\ scriptImages > 0
  /\ scriptImages' = scriptImages - 1
  /\ UNCHANGED << scriptReaders, scriptResizes, oldImages, oldCalls, otherVars,
                  serverVars >>

\* closeAdmin, and the form reset after a vehicle was added: selectedImages = []
ClearImages ==
  /\ scriptImages > 0
  /\ scriptImages' = 0
  /\ UNCHANGED << scriptReaders, scriptResizes, oldImages, oldCalls, otherVars,
                  serverVars >>

NextScript ==
  \/ HandleFiles
  \/ ReaderOnload
  \/ ResizeOnload
  \/ LoadFails
  \/ RemoveImage
  \/ ClearImages

SpecScript == Init /\ [][NextScript]_vars

\* ----------------------------- image selection of src/unnamed/part_000
\* handleSelectedFiles from the head of its for loop, with the files not yet
\* looked at and selectedImages.length = len, up to its next await or its end
RECURSIVE runLoop(_, _)
runLoop(files, len) ==
  IF files = <<>> THEN [pc |-> "done", files |-> <<>>]
  ELSE IF len >= MaxImagenes THEN [pc |-> "done", files |-> <<>>]
  ELSE IF ~Head(files) THEN runLoop(Tail(files), len)
  ELSE [pc |-> "await", files |-> Tail(files)]

\* handleSelectedFiles(files), called by the change and drop listeners
\* without waiting for an earlier invocation
HandleSelectedFiles ==
  \E files \in FileLists(MaxOldFiles) :
    /\ Len(oldCalls) < MaxCalls
    /\ oldCalls' = Append(oldCalls, runLoop(files, oldImages))
    /\ UNCHANGED << oldImages, scriptImages, scriptReaders, scriptResizes, otherVars,
                  serverVars >>

\* compressFileToDataUrl resolves: selectedImages.push(dataUrl), next file
CompressResolves ==
  \E i \in 1 .. Len(oldCalls) :
    /\ oldCalls[i].pc = "await"
    /\ oldImages' = oldImages + 1
    /\ oldCalls' = [oldCalls EXCEPT ![i] = runLoop(oldCalls[i].files, oldImages + 1)]
    /\ UNCHANGED << scriptImages, scriptReaders, scriptResizes, otherVars,
                  serverVars >>

\* compressFileToDataUrl rejects: the exception ends the invocation
CompressRejects ==
  \E i \in 1 .. Len(oldCalls) :
    /\ oldCalls[i].pc = "await"
    /\ oldCalls' = [oldCalls EXCEPT ![i] = [pc |-> "done", files |-> <<>>]]
    /\ UNCHANGED << oldImages, scriptImages, scriptReaders, scriptResizes, otherVars,
                  serverVars >>

\* the remove button of a preview: selectedImages.splice(index, 1)
RemovePreview ==
  /\ oldImages > 0
  /\ oldImages' = oldImages - 1
  /\ UNCHANGED << oldCalls, scriptImages, scriptReaders, scriptResizes, otherVars,
                  serverVars >>

\* closeAdmin: selectedImages = []
CloseAdminOld ==
  /\ oldImages > 0
  /\ oldImages' = 0
  /\ UNCHANGED << oldCalls, scriptImages, scriptReaders, scriptResizes, otherVars,
                  serverVars >>

NextOld ==
  \/ HandleSelectedFiles
  \/ CompressResolves
  \/ CompressRejects
  \/ RemovePreview
  \/ CloseAdminOld

SpecOld == Init /\ [][NextOld]_vars

\* ------------------- adding and removing vehicles in src/public/script.js
\* Each fetch of the page is a request on its way to the server (netReqs),
\* then a run of the handler (the server's action, guarded by a request of
\* its kind), then a response on its way back (netResps). Responses reach the
\* page in any order: every fetch has its own promise, and the page neither
\* numbers nor cancels them.
NetReq(o, kind, id) == [o |-> o, kind |-> kind, id |-> id]
NetResp(o, kind, ok, list) == [o |-> o, kind |-> kind, ok |-> ok, list |-> list]

\* nuevoVehiculo of handleAddVehicle, for a form filled in without images
AdminBody == FormBody("Ford", "Ka", TRUE, <<>>)

\* handleAddVehicle(e) up to its fetch: the form passes the validation
HandleAddVehicle ==
  /\ issued < MaxOps
  /\ issued' = issued + 1
  /\ netReqs' = netReqs \cup { NetReq(issued + 1, "create", 0) }
  /\ UNCHANGED << scriptVehicles, netResps, notRefetch, serverVars >>

\* removeVehicle(v.id) up to its fetch, for a vehicle of the admin list
RemoveVehicle ==
  \E i \in 1 .. Len(scriptVehicles) :
    /\ issued < MaxOps
    /\ issued' = issued + 1
    /\ netReqs' = netReqs \cup { NetReq(issued + 1, "delete", scriptVehicles[i].id) }
    /\ UNCHANGED << scriptVehicles, netResps, notRefetch, serverVars >>

\* the server takes a request once the response of the one before is out
Awaits(kind) == resp.op = "none" /\ \E m \in netReqs : m.kind = kind

ServeList == Awaits("list") /\ GetVehiculos

ServeCreate == Awaits("create") /\ Post({ AdminBody })

ServeDelete ==
  /\ Awaits("delete")
  /\ DeleteVehiculos
  /\ \E m \in netReqs : m.kind = "delete" /\ req'.param = Num(m.id)

\* res.ok
Ok(status) == status \in 200 .. 299

\* the response of the handler leaves the server
Respond ==
  /\ resp.op # "none"
  /\ \E m \in netReqs :
       /\ m.kind = req.op
       /\ req.op = "delete" => req.param = Num(m.id)
       /\ netReqs' = netReqs \ { m }
       /\ netResps' = netResps \cup { NetResp(m.o, m.kind, Ok(resp.status), resp.list) }
  /\ NoRequest
  /\ UNCHANGED << scriptVehicles, issued, notRefetch, vehicles, uploads, now,
                  created, anyDelete, deletedSince, fileState, dataWritable,
                  appFiles >>

\* the fetch of handleAddVehicle or removeVehicle resolves: the first .then
\* throws unless res.ok, the second calls fetchVehiclesFromAPI()
WriteResolves ==
  \E r \in netResps :
    /\ r.kind \in { "create", "delete" }
    /\ netResps' = netResps \ { r }
    /\ netReqs' = IF r.ok THEN netReqs \cup { NetReq(r.o, "list", 0) } ELSE netReqs
    /\ UNCHANGED << scriptVehicles, issued, notRefetch, serverVars >>

\* the fetch of fetchVehiclesFromAPI resolves: vehicles = data, or [] on error
FetchResolves ==
  \E r \in netResps :
    /\ r.kind = "list"
    /\ netResps' = netResps \ { r }
    /\ scriptVehicles' = IF r.ok THEN r.list ELSE << >>
    /\ UNCHANGED << netReqs, issued, notRefetch, serverVars >>

NextRefetch ==
  \/ HandleAddVehicle
  \/ RemoveVehicle
  \/ ServeList
  \/ ServeCreate
  \/ ServeDelete
  \/ Respond
  \/ WriteResolves
  \/ FetchResolves

SpecRefetch == Init /\ [][NextRefetch]_vars

\* no request of the page is under way
Settled == netReqs = {} /\ netResps = {} /\ resp.op = "none"

\* ------------------------------ the filters of src/unnamed/part_000
\* veh[name]: undefined for a property the record does not have
prop(veh, name) ==
  IF name \in DOMAIN veh THEN [undef |-> FALSE, v |-> veh[name]]
  ELSE [undef |-> TRUE, v |-> Null]

\* Infinity, and a finite limit
Infinity == [inf |-> TRUE, val |-> 0]
Limit(n) == [inf |-> FALSE, val |-> n]

\* parseFloat(input.value) || Infinity
orInfinity(n) == IF n.nan \/ n.val = 0 THEN Infinity ELSE Limit(n.val)

\* !precioVal: only 0 and NaN are falsy
notLimit(lim) == ~lim.inf /\ lim.val = 0

\* x <= lim for a stored number, null or undefined: undefined converts to
\* NaN, which compares false; null converts to 0
lessOrEqual(x, lim) ==
  IF x.undef THEN FALSE
  ELSE LET n == IF x.v.null THEN 0 ELSE x.v.val
       IN lim.inf \/ n <= lim.val

\* the filter of applyFilters() for the inputs f
applyFilters(list, f) ==
  LET precioVal == orInfinity(parseFloat(f.precio))
      kmsVal == orInfinity(parseFloat(f.km))
      keep(veh) ==
        LET marcaOk == f.marca = "" \/ veh.marca = f.marca
            anioOk == f.anio = << >> \/ veh.anio = f.anio[1]
            precioOk == notLimit(precioVal) \/ lessOrEqual(prop(veh, "precio"), precioVal)
            kmsOk == notLimit(kmsVal) \/ lessOrEqual(prop(veh, "kilometros"), kmsVal)
        IN marcaOk /\ anioOk /\ precioOk /\ kmsOk
  IN SelectSeq(list, keep)

\* createVehicleCard(veh) throws on veh.kilometros.toLocaleString()
cardThrows(veh) == prop(veh, "kilometros").undef

\* renderDestacados() throws
destacadosThrow(list) ==
  \E i \in 1 .. Len(list) : list[i].destacado /\ cardThrows(list[i])

\* the values a visitor gives the filter inputs
FilterValues ==
  { Filters(ma, an, pr, km) :
      ma \in { "", "Ford" }, an \in { << >>, << Number(7) >> },
      pr \in { NoParam, Num(7) }, km \in { NoParam, Num(7) } }

\* the DOMContentLoaded handler, from the response of its fetch on: response
\* .json() throws on the body of an error response, and vehicles = []
OldPageLoads ==
  /\ oldPage = "loading"
  /\ resp.op = "list"
  /\ LET list == IF Ok(resp.status) THEN resp.list ELSE << >>
     IN /\ oldVehicles' = list
        /\ IF destacadosThrow(list)
           THEN filteredVehicles' = list /\ oldPage' = "broken"
           ELSE /\ filteredVehicles' = applyFilters(list, filters)
                /\ oldPage' = IF \E i \in 1 .. Len(filteredVehicles') :
                                     cardThrows(filteredVehicles'[i])
                              THEN "broken" ELSE "ready"
  /\ UNCHANGED << filters, notFilter, serverVars >>

\* the page is opened again
OldPageReloads ==
  /\ oldPage # "loading"
  /\ oldPage' = "loading"
  /\ oldVehicles' = << >>
  /\ filteredVehicles' = << >>
  /\ filters' = NoFilters
  /\ UNCHANGED << notFilter, serverVars >>

\* a filter input changes: applyFilters()
FilterChanges ==
  \E f \in FilterValues :
    /\ oldPage = "ready"
    /\ f # filters
    /\ filters' = f
    /\ filteredVehicles' = applyFilters(oldVehicles, f)
    /\ UNCHANGED << oldPage, oldVehicles, notFilter, serverVars >>

\* limpiarFiltros()
LimpiarFiltros ==
  /\ oldPage = "ready"
  /\ filters' = NoFilters
  /\ filteredVehicles' = applyFilters(oldVehicles, NoFilters)
  /\ UNCHANGED << oldPage, oldVehicles, notFilter, serverVars >>

\* what the server's clients send: the older form (its mileage goes under the
\* name kilometros, which the server does not read), the form of script.js
\* with a price of 0, and a featured vehicle
OldBodies ==
  { Body("Ford", "Ka", TRUE, <<>>, Num(7), Num(7), NoParam),
    Body("Fiat", "Uno", TRUE, <<>>, Num(2020), Num(0), Num(7)),
    [Body("Ford", "Ka", TRUE, <<>>, Num(7), Num(7), NoParam)
       EXCEPT !.destacado = TRUE] }

PostOld == Post(OldBodies)

NextFilters ==
  \/ GetVehiculos
  \/ PostOld
  \/ OldPageLoads
  \/ OldPageReloads
  \/ FilterChanges
  \/ LimpiarFiltros

SpecFilters == Init /\ [][NextFilters]_vars

\* ------------------------------------- the gallery of src/public/detalle.js
\* a % n of JavaScript: the sign of the result is the sign of a
jsMod(a, n) == IF a >= 0 THEN a % n ELSE 0 - ((0 - a) % n)

\* vehicles with no image, one image and MaxGallery images, each its own URL
GalleryBodies ==
  { FormBody("Ford", "Ka", TRUE, [i \in 1 .. n |-> ImgString(Url(ToString(i)))]) :
      n \in { 0, 1, MaxGallery } }

PostGallery == Post(GalleryBodies)

\* !vehicle || !vehicle.imagenes || vehicle.imagenes.length === 0
noImages(veh) == veh = NoVehicle \/ Len(veh.imagenes) = 0

\* list[index] of JavaScript: undefined outside the array, which an image
\* source takes as the text "undefined"
elementAt(list, index) ==
  IF index \in 0 .. Len(list) - 1 THEN list[index + 1]
  ELSE Str("", "", "", 0, 0, "", "undefined")

\* updateMainImage(index): the index and the source shown afterwards
updateMainImage(veh, index, cur, src) ==
  IF noImages(veh) THEN [currentIndex |-> cur, mainImg |-> src]
  ELSE [currentIndex |-> index, mainImg |-> elementAt(veh.imagenes, index)]

newIndexNoCount(cur, delta, count) == jsMod(cur + delta, count)

\* let newIndex = (currentIndex + delta + count) % count
newIndex(cur, delta, count) == jsMod(cur + delta + count, count)

\* the page is opened with ?id=<id>: the script's variables start anew, and the
\* DOMContentLoaded handler runs from the response of fetchVehicles() on
DetalleLoads ==
  \E id \in 1 .. MaxCreates :
    /\ resp.op = "list"
    /\ LET list == resp.list
           k == find(list, id)
       IN IF k = 0
          THEN /\ vehicle' = NoVehicle
               /\ currentIndex' = 0
               /\ mainImg' = Url("")
          ELSE LET u == updateMainImage(list[k], 0, 0, Url(""))
               IN /\ vehicle' = list[k]
                  /\ currentIndex' = u.currentIndex
                  /\ mainImg' = u.mainImg
    /\ detalleOp' = "load"
    /\ UNCHANGED << notDetalle, serverVars >>

\* navigate(delta), called by the click listeners of the two arrows
Navigate(delta) ==
  /\ detalleOp' = IF delta = 1 THEN "right" ELSE "left"
  /\ IF noImages(vehicle) THEN UNCHANGED << currentIndex, mainImg >>
     ELSE LET count == Len(vehicle.imagenes)
              u == updateMainImage(vehicle, newIndex(currentIndex, delta, count),
                                   currentIndex, mainImg)
          IN currentIndex' = u.currentIndex /\ mainImg' = u.mainImg
  /\ UNCHANGED << vehicle, notDetalle, serverVars >>

ArrowLeft == Navigate(0 - 1)

ArrowRight == Navigate(1)

\* the click listener of thumbnail index: updateMainImage(index)
ThumbnailClick ==
  \E index \in 0 .. Len(vehicle.imagenes) - 1 :
    LET u == updateMainImage(vehicle, index, currentIndex, mainImg)
    IN /\ currentIndex' = u.currentIndex
       /\ mainImg' = u.mainImg
       /\ detalleOp' = "thumb"
       /\ UNCHANGED << vehicle, notDetalle, serverVars >>

NextDetalle ==
  \/ GetVehiculos
  \/ PostGallery
  \/ DetalleLoads
  \/ ArrowLeft
  \/ ArrowRight
  \/ ThumbnailClick

SpecDetalle == Init /\ [][NextDetalle]_vars

\* ---------------------------------- the admin panel of src/public/script.js
\* what is typed into admin-user and admin-pass
Typings ==
  { Typed("", FALSE), Typed("admin", FALSE), Typed("admin", TRUE),
    Typed("root", FALSE) }

TypeUser ==
  \E v \in Typings :
    /\ v # adminUser
    /\ adminUser' = v
    /\ adminOp' = "none"
    /\ UNCHANGED << loggedIn, overlayShown, loginHidden, dashboardHidden, adminPass,
                    scriptImages, notAdmin, serverVars >>

TypePass ==
  \E v \in Typings :
    /\ v # adminPass
    /\ adminPass' = v
    /\ adminOp' = "none"
    /\ UNCHANGED << loggedIn, overlayShown, loginHidden, dashboardHidden, adminUser,
                    scriptImages, notAdmin, serverVars >>

\* openAdmin()
OpenAdmin ==
  /\ overlayShown' = TRUE
  /\ IF loggedIn
     THEN loginHidden' = TRUE /\ dashboardHidden' = FALSE
     ELSE loginHidden' = FALSE /\ dashboardHidden' = TRUE
  /\ adminOp' = "open"
  /\ UNCHANGED << loggedIn, adminUser, adminPass, scriptImages, notAdmin,
                  serverVars >>

\* closeAdmin()
CloseAdmin ==
  /\ overlayShown' = FALSE
  /\ adminUser' = Typed("", FALSE)
  /\ adminPass' = Typed("", FALSE)
  /\ scriptImages' = 0
  /\ adminOp' = "close"
  /\ UNCHANGED << loggedIn, loginHidden, dashboardHidden, notAdmin, serverVars >>

credentialsOkUserOnly(user, pass) == user = "admin"

\* user === 'admin' && pass === 'admin'
credentialsOk(user, pass) == user = "admin" /\ pass = "admin"

\* loginAdmin()
LoginAdmin ==
  /\ IF credentialsOk(trim(adminUser), trim(adminPass))
     THEN loggedIn' = TRUE /\ loginHidden' = TRUE /\ dashboardHidden' = FALSE
     ELSE UNCHANGED << loggedIn, loginHidden, dashboardHidden >>
  /\ adminOp' = "login"
  /\ UNCHANGED << overlayShown, adminUser, adminPass, scriptImages, notAdmin,
                  serverVars >>

\* logoutAdmin()
LogoutAdmin ==
  /\ loggedIn' = FALSE
  /\ loginHidden' = FALSE
  /\ dashboardHidden' = TRUE
  /\ adminOp' = "logout"
  /\ UNCHANGED << overlayShown, adminUser, adminPass, scriptImages, notAdmin,
                  serverVars >>

NextAdmin ==
  \/ TypeUser
  \/ TypePass
  \/ OpenAdmin
  \/ CloseAdmin
  \/ LoginAdmin
  \/ LogoutAdmin

SpecAdmin == Init /\ [][NextAdmin]_vars

\* the dashboard can be seen
DashboardVisible == overlayShown /\ ~dashboardHidden

\* ------------------------------------------------------------ shorthands
Ids(list) == { list[i].id : i \in 1 .. Len(list) }

MaxOf(S) == CHOOSE m \in S : \A x \in S : x <= m

\* the images a create request hands to the map
Given(body) == IF body.isArray THEN body.imagenes ELSE <<>>

\* a string that is not an inline payload: the map keeps it as it is
IsPlainString(img) == ~img.obj /\ ~startsWith(img.s, "data:")

LocalPaths(v) ==
  { v.imagenes[i] : i \in { j \in 1 .. Len(v.imagenes) :
                              startsWith(v.imagenes[j], "/uploads/") } }

CreateOk(r) == r.op = "create" /\ r.status = 201
DeleteOk(r) == r.op = "delete" /\ r.status = 200

\* an inline payload that saveDataUrlToFile rejects
IsBadPayload(img) == startsWith(img.s, "data:") /\ ~matchesDataUrl(img.s)

TypeOK ==
  /\ now \in 1 .. MaxClock
  /\ fileState \in { "ok", "missing", "corrupt" }
  /\ fileState # "ok" => vehicles = <<>>
  /\ Len(created) <= MaxCreates
  /\ \A i \in 1 .. Len(vehicles) : vehicles[i].id \in 1 .. MaxCreates

\* ---------------------------------------------------------------- claims

\* C1: starting from an empty store, as long as no delete has succeeded, the
\* ids of the created vehicles are exactly 1..N in creation order, without
\* duplicates, in whatever order the create requests are handled.
C1_IdsAreOneToN ==
  ~anyDelete =>
    /\ \A i \in 1 .. Len(created) : created[i] = i
    /\ Len(vehicles) = Len(created)
    /\ \A i \in 1 .. Len(vehicles) : vehicles[i].id = i

C1_Witness == ~anyDelete /\ Len(created) >= 3 /\ Len(vehicles) >= 3

\* C2: no two records of the store have the same id.
C2_UniqueIds ==
  \A i \in 1 .. Len(vehicles) : \A j \in 1 .. Len(vehicles) :
    i # j => vehicles[i].id # vehicles[j].id

C2_Witness == anyDelete /\ Len(vehicles) >= 2 /\ CreateOk(resp)

\* C3 as stated: the id of each successful create is strictly greater than
\* the id of every earlier successful create, deletes in between or not.
C3_Original ==
  \A i \in 1 .. Len(created) : \A j \in 1 .. Len(created) :
    i < j => created[i] < created[j]

\* C3 amended: the id of each successful create is strictly greater than the
\* id of every record the store holds at that time, and it is the id of the
\* record appended.
C3_GreaterThanStored ==
  [][CreateOk(resp') =>
       /\ \A i \in 1 .. Len(vehicles) : vehicles[i].id < resp'.id
       /\ created' = Append(created, resp'.id)
       /\ vehicles'[Len(vehicles')].id = resp'.id]_vars

C3_Witness ==
  /\ CreateOk(resp)
  /\ anyDelete
  /\ Len(vehicles) >= 2
  /\ \E i \in 1 .. Len(created) - 1 : created[i] >= created[Len(created)]

\* C4: getNextId returns one more than the greatest id of the store content,
\* and 1 for the empty content.
C4_NextIdIsMaxPlusOne ==
  resp.op = "getNextId" =>
    resp.id = IF vehicles = <<>> THEN 1 ELSE MaxOf(Ids(vehicles)) + 1

C4_Witness ==
  /\ resp.op = "getNextId"
  /\ Len(vehicles) >= 3
  /\ vehicles[1].id > vehicles[2].id
  /\ vehicles[2].id = vehicles[3].id

\* C5: a delete request for a positive integer id that no record has is
\* answered 404 and changes neither the record list nor the payload files.
C5_DeleteMissing ==
  [][(/\ req'.op = "delete"
      /\ ~parseInt(req'.param).nan
      /\ parseInt(req'.param).val >= 1
      /\ parseInt(req'.param).val \notin Ids(vehicles))
     => /\ resp'.status = 404
        /\ vehicles' = vehicles
        /\ uploads' = uploads]_vars

C5_Witness ==
  /\ resp.op = "delete"
  /\ resp.status = 404
  /\ vehicles # <<>>
  /\ uploads # {}
  /\ anyDelete

\* C6: a list request returns no record whose id was deleted since the last
\* create request.
C6_DeletedNotListed ==
  resp.op = "list" =>
    /\ resp.status = 200
    /\ \A i \in 1 .. Len(resp.list) : resp.list[i].id \notin deletedSince

C6_Witness ==
  /\ resp.op = "list"
  /\ deletedSince # {}
  /\ resp.list # <<>>

\* C7: after a successful delete, none of the files the removed record
\* referenced under /uploads/ exists.
C7_PayloadsRemoved ==
  DeleteOk(resp) =>
    /\ removed.id \notin Ids(vehicles)
    /\ \A p \in LocalPaths(removed) : ~existsSync(uploads, p)

C7_Witness ==
  /\ DeleteOk(resp)
  /\ Len(removed.imagenes) >= 2
  /\ LocalPaths(removed) # {}
  /\ uploads # {}

\* C8: a successful delete removes no file that a record remaining in the
\* store references.
C8_OtherPayloadsKept ==
  [][DeleteOk(resp') =>
       \A i \in 1 .. Len(vehicles') : \A p \in LocalPaths(vehicles'[i]) :
         existsSync(uploads, p) => existsSync(uploads', p)]_vars

\* C9: a create request whose marca or modelo is absent or empty is answered
\* 400 and changes neither the record list nor the payload files.
C9_InvalidCreateRejected ==
  [][(/\ req'.op = "create"
      /\ (Falsy(req'.body.marca) \/ Falsy(req'.body.modelo)))
     => /\ resp'.status = 400
        /\ vehicles' = vehicles
        /\ uploads' = uploads]_vars

C9_Witness ==
  /\ resp.op = "create"
  /\ resp.status = 400
  /\ req.body.marca = "Ford"
  /\ req.body.imagenes # <<>>
  /\ vehicles # <<>>

\* C10: a successful create stores every image given as a string that is not
\* an inline payload unchanged at its position, and writes no file for it.
C10_UrlStoredVerbatim ==
  [][CreateOk(resp') =>
       LET given == Given(req'.body)
           nuevo == vehicles'[Len(vehicles')]
       IN /\ Len(nuevo.imagenes) = Len(given)
          /\ \A i \in 1 .. Len(given) :
               IsPlainString(given[i]) =>
                 /\ nuevo.imagenes[i] = given[i].s
                 /\ \A f \in uploads' \ uploads : f.idx # i - 1]_vars

C10_Witness ==
  /\ CreateOk(resp)
  /\ Len(Given(req.body)) >= 2
  /\ IsPlainString(Given(req.body)[1])
  /\ ~IsPlainString(Given(req.body)[2])
  /\ vehicles[Len(vehicles)].imagenes[1] = Url("a.jpg")

\* C11: a list request returns the records in ascending order of id.
C11_ListSortedById ==
  resp.op = "list" =>
    /\ resp.list = vehicles
    /\ \A i \in 1 .. Len(resp.list) : \A j \in 1 .. Len(resp.list) :
         i < j => resp.list[i].id < resp.list[j].id

C11_Witness ==
  /\ resp.op = "list"
  /\ Len(resp.list) >= 2
  /\ anyDelete
  /\ resp.list[2].id > resp.list[1].id + 1

\* C12: a list request never fails: whatever the state of the data file, it
\* is answered 200, with the empty array when the file cannot be read.
C12_ListNeverFails ==
  resp.op = "list" =>
    /\ resp.status = 200
    /\ resp.list = vehicles

C14_BadImageNoRecord ==
  [][(/\ req'.op = "create"
      /\ \E i \in 1 .. Len(Given(req'.body)) : IsBadPayload(Given(req'.body)[i]))
     => /\ resp'.status \in { 400, 500 }
        /\ resp'.keys = { "error" }
        /\ vehicles' = vehicles
        /\ created' = created]_vars

C14_Witness ==
  /\ req.op = "create"
  /\ resp.status = 500
  /\ Len(Given(req.body)) >= 2
  /\ IsBadPayload(Given(req.body)[2])
  /\ ~IsBadPayload(Given(req.body)[1])
  /\ vehicles # <<>>

\* C15: a create request that fails leaves the upload directory as it was.
C15_FilesRolledBack ==
  [][(req'.op = "create" /\ resp'.status = 500) => uploads' = uploads]_vars

\* C16: a delete request answered 500 leaves the record list and the upload
\* directory as they were.
C16_DeleteFailsCleanly ==
  [][(req'.op = "delete" /\ resp'.status = 500)
     => vehicles' = vehicles /\ uploads' = uploads]_vars

\* C17: a payload is never written under a filename that an earlier payload
\* was written under: where a successful create stores a generated path, no
\* file of that name existed before the request.
C17_FreshFilenames ==
  [][CreateOk(resp') =>
       LET given == Given(req'.body)
           nuevo == vehicles'[Len(vehicles')]
       IN \A i \in 1 .. Len(given) :
            ~IsPlainString(given[i]) => ~existsSync(uploads, nuevo.imagenes[i])]_vars

\* C18: no record of the store has more than 5 image references.
C18_AtMostFiveImages ==
  \A i \in 1 .. Len(vehicles) : Len(vehicles[i].imagenes) <= MaxImagenes

\* C19: in script.js, selectedImages never holds more than 5 entries.
C19_ScriptAtMostFive == scriptImages <= MaxImagenes

\* C20: in the older script, selectedImages never holds more than 5 entries.
C20_OldAtMostFive == oldImages <= MaxImagenes

\* C21: an image given as an object { src } is handled as the string src
\* would be: a create request with make and model whose images are all
\* acceptable succeeds, an object whose src is an external URL is stored as
\* src unchanged at its position, and an object whose src is an inline
\* payload is stored as the path of a file that holds the decoded payload.
C21_ObjectSrcResolved ==
  [][(/\ req'.op = "create"
      /\ PostValid(req'.body)
      /\ \A i \in 1 .. Len(Given(req'.body)) : ~IsBadPayload(Given(req'.body)[i]))
     => /\ CreateOk(resp')
        /\ LET given == Given(req'.body)
               nuevo == vehicles'[Len(vehicles')]
           IN \A i \in 1 .. Len(given) :
                given[i].obj =>
                  IF startsWith(given[i].s, "data:")
                  THEN \E f \in uploads' :
                         /\ nuevo.imagenes[i] = UploadPath(f.t, f.idx, f.ext)
                         /\ f.bytes = Base64Decode(given[i].s.rest)
                  ELSE nuevo.imagenes[i] = given[i].s]_vars

\* a text that is not a decimal numeral
NonNumeric(p) == ~p.hasNum \/ p.junk

\* C23: a delete request is answered 400 exactly when its id parameter is
\* not numeric, and then it changes neither the record list nor the files.
C23_NonNumericIdRejected ==
  [][req'.op = "delete" =>
       /\ (resp'.status = 400) <=> NonNumeric(req'.param)
       /\ NonNumeric(req'.param) => vehicles' = vehicles /\ uploads' = uploads]_vars

\* what the claim says a numeric field is stored as: null when the text does
\* not parse, the number parsed otherwise
StoredAs(n) == IF n.nan THEN Null ELSE Number(n.val)

\* C22: a successful create stores year, price and mileage as null exactly
\* when the submitted value does not parse as a number, and as the number
\* parsed otherwise, 0 included.
C22_NullIffUnparsed ==
  [][CreateOk(resp') =>
       LET nuevo == vehicles'[Len(vehicles')]
       IN /\ nuevo.anio = StoredAs(parseInt(req'.body.anio))
          /\ nuevo.precio = StoredAs(parseFloat(req'.body.precio))
          /\ nuevo.km = StoredAs(parseInt(req'.body.km))]_vars

\* C25: a successful create appends one record and leaves the records stored
\* before as they were, in their order; a successful delete removes the one
\* record of the requested id and leaves the others as they were, in their
\* order.
C25_OnlyOwnRecord ==
  [][/\ CreateOk(resp') =>
          /\ Len(vehicles') = Len(vehicles) + 1
          /\ \A i \in 1 .. Len(vehicles) : vehicles'[i] = vehicles[i]
          /\ vehicles'[Len(vehicles')].id = resp'.id
     /\ DeleteOk(resp') =>
          LET id == parseInt(req'.param).val
          IN /\ \A i \in 1 .. Len(vehicles') : vehicles'[i].id # id
             /\ \E k \in 1 .. Len(vehicles) :
                  /\ vehicles[k].id = id
                  /\ Len(vehicles') = Len(vehicles) - 1
                  /\ \A i \in 1 .. k - 1 : vehicles'[i] = vehicles[i]
                  /\ \A i \in k .. Len(vehicles') : vehicles'[i] = vehicles[i + 1]]_vars

C25_Witness ==
  /\ DeleteOk(resp)
  /\ Len(vehicles) >= 2
  /\ vehicles[1].id < removed.id
  /\ removed.id < vehicles[2].id
  /\ vehicles[1].km # vehicles[2].km

\* C24: a delete removes only files of the upload directory, which image
\* ingestion wrote: whatever image strings the create requests carried, no
\* file outside uploads/ is removed.
C24_OnlyUploadsUnlinked ==
  [][req'.op = "delete" =>
       /\ appFiles' = appFiles
       /\ uploads' \subseteq uploads]_vars

\* C26: in script.js, once every add, remove and refetch request of the page
\* has completed, the array vehicles of the page equals the list of the
\* server's store, in whatever order the requests overlapped and their
\* responses arrived.
C26_PageMatchesStore == Settled => scriptVehicles = vehicles

\* C27: in the older script, limpiarFiltros shows all vehicles again: after
\* it, filteredVehicles holds every element of vehicles, in the same order,
\* whatever list the server returned.
C27_LimpiarShowsAll ==
  [][LimpiarFiltros => filteredVehicles' = oldVehicles]_vars

\* C28: in detalle.js, for a vehicle with at least one image, currentIndex
\* stays within 0..count-1 after any sequence of arrow and thumbnail clicks,
\* the image shown is the one at currentIndex, the right arrow on the last
\* image leads to index 0 and the left arrow on index 0 to the last image.
C28_IndexInRange ==
  [][~noImages(vehicle') =>
       LET count == Len(vehicle'.imagenes)
       IN /\ currentIndex' \in 0 .. count - 1
          /\ mainImg' = vehicle'.imagenes[currentIndex' + 1]
          /\ ArrowRight =>
               currentIndex' = IF currentIndex = count - 1 THEN 0
                               ELSE currentIndex + 1
          /\ ArrowLeft =>
               currentIndex' = IF currentIndex = 0 THEN count - 1
                               ELSE currentIndex - 1]_vars

C28_Witness ==
  /\ detalleOp = "left"
  /\ Len(vehicle.imagenes) >= 3
  /\ currentIndex = Len(vehicle.imagenes) - 1
  /\ mainImg = vehicle.imagenes[Len(vehicle.imagenes)]

\* C29: in script.js, the dashboard is visible only while loggedIn is true,
\* whatever the sequence of openAdmin, closeAdmin, loginAdmin and logoutAdmin;
\* loggedIn becomes true only in loginAdmin with the user and the password
\* read (trimmed) as 'admin'; closeAdmin leaves loggedIn as it was, and
\* logoutAdmin sets it to false.
C29_DashboardNeedsLogin ==
  [][/\ DashboardVisible' => loggedIn'
     /\ (~loggedIn /\ loggedIn') =>
          /\ adminOp' = "login"
          /\ trim(adminUser) = "admin"
          /\ trim(adminPass) = "admin"
     /\ adminOp' = "close" => loggedIn' = loggedIn
     /\ adminOp' = "logout" => ~loggedIn']_vars

C29_Witness ==
  /\ DashboardVisible
  /\ loggedIn
  /\ adminOp = "open"
  /\ adminUser = Typed("", FALSE)

====
